---- MODULE Spec2Model ----
(***************************************************************************)
(* Pitwall publishers: the connect loop, the frame dispatch loop, the      *)
(* recursive state merge (updateDictDelta), the spawned store/publish      *)
(* tasks and the LastLapTime Debouncer of src/publisher.                   *)
(*                                                                         *)
(* JSON values are tagged records [t, v]: t = "s" scalar (v an integer),   *)
(* t = "m" dict (v a function over key strings), t = "l" list (v a         *)
(* sequence), t = "none" for Python None / an absent store key.            *)
(***************************************************************************)
EXTENDS Integers, Sequences, FiniteSets, TLC

\* ------------------------------------------------------------------ bounds
MaxEvents == 3

\* --------------------------------------------------------------- constants
\* Debouncer(interval=3), timing.py:46
Interval == 3

\* ------------------------------------------------------------- JSON values
S(n) == [t |-> "s", v |-> n]
D(f) == [t |-> "m", v |-> f]
L(s) == [t |-> "l", v |-> s]
Absent == [t |-> "none", v |-> 0]
EmptyDict == D([k \in {} |-> Absent])

IsDict(x) == x.t = "m"
IsList(x) == x.t = "l"
Keys(x) == DOMAIN x.v

\* dict.pop(key, None): the dict without key
Pop(x, key) == D([k \in Keys(x) \ {key} |-> x.v[k]])

\* Python truthiness of a parsed JSON value
Truthy(x) ==
    CASE x.t = "none" -> FALSE
      [] x.t = "m" -> Keys(x) # {}
      [] x.t = "l" -> Len(x.v) > 0
      [] OTHER -> x.v # 0

\* Indices counted from one instead of zero.
IdxStrFromOne == <<"1", "2", "3", "4", "5", "6", "7", "8">>

\* str(idx) for the indices enumerate() yields
IdxStr == <<"0", "1", "2", "3", "4", "5", "6", "7">>

\* Insertion order of the keys of the dicts the model feeds in: every input
\* dict lists its keys in this order, so a dict is a function plus this order.
KeyOrder == <<"0", "1", "2", "3", "44", "_kf", "a", "b", "x", "Gap",
              "LastLapTime", "Lines", "PersonalFastest", "Value",
              "Captures", "Path", "Message", "field", "_deleted">>

KeyRank(k) == CHOOSE i \in 1..Len(KeyOrder) : KeyOrder[i] = k

RECURSIVE InOrder(_)
InOrder(ks) ==
    IF ks = {} THEN <<>>
    ELSE LET k == CHOOSE x \in ks : \A y \in ks : KeyRank(x) <= KeyRank(y)
         IN <<k>> \o InOrder(ks \ {k})

\* utils.py:12-38.  The loop visits each key of delta once and touches only
\* obj[key], so the result is given key by key.
\* A merge that returns the delta and forgets the object.
updateDictDeltaReplace(obj, delta) == delta

\* A merge that replaces whole top-level values instead of recursing.
updateDictDeltaShallow(obj, delta) ==
    D([key \in Keys(obj) \cup Keys(delta) |->
        IF key \in Keys(delta) THEN delta.v[key] ELSE obj.v[key]])

\* A merge in which the value already present wins.
updateDictDeltaKeep(obj, delta) ==
    D([key \in Keys(obj) \cup Keys(delta) |->
        IF key \in Keys(obj) THEN obj.v[key] ELSE delta.v[key]])

\* A merge whose index patch drops the entries that name no element of the list.
updateDictDeltaInBounds(obj, delta) ==
    D([key \in Keys(obj) \cup Keys(delta) |->
        IF key \notin Keys(delta) THEN obj.v[key]
        ELSE IF key \in Keys(obj) /\ IsDict(delta.v[key]) /\ IsList(obj.v[key])
             THEN L([i \in 1..Len(obj.v[key].v) |->
                      IF IdxStr[i] \in Keys(delta.v[key])
                      THEN delta.v[key].v[IdxStr[i]]
                      ELSE obj.v[key].v[i]])
        ELSE delta.v[key]])

RECURSIVE updateDictDelta(_, _)
updateDictDelta(obj, delta) ==
    D([key \in Keys(obj) \cup Keys(delta) |->
        IF key \notin Keys(delta) THEN obj.v[key]
        ELSE IF key \notin Keys(obj) THEN delta.v[key]
        ELSE IF IsDict(delta.v[key]) /\ IsDict(obj.v[key])
             THEN updateDictDelta(obj.v[key], delta.v[key])
        ELSE IF IsDict(delta.v[key]) /\ IsList(obj.v[key])
             THEN LET lst == obj.v[key].v
                      idx == {IdxStr[i] : i \in 1..Len(lst)}
                      tempDict == D([k \in idx |->
                                      lst[CHOOSE i \in 1..Len(lst) : IdxStr[i] = k]])
                      merged == updateDictDelta(tempDict, delta.v[key])
                      order == [i \in 1..Len(lst) |-> IdxStr[i]]
                                 \o InOrder(Keys(merged) \ idx)
                  IN L([i \in 1..Len(order) |-> merged.v[order[i]]])
        ELSE delta.v[key]])

\* `reference or {}`
OrEmpty(x) == IF Truthy(x) THEN x ELSE EmptyDict

\* ------------------------------------------------------------ the handlers
Handlers == {"timing", "tyre", "pitlane", "telemetry", "radio"}

\* The topics each handler subscribes to (timing.py:147, tyre.py:115,
\* pitlane.py:86-90, telemetry.py:117, radio.py:162).
Topics(h) ==
    CASE h = "timing" -> {"TimingDataF1"}
      [] h = "tyre" -> {"TyreStintSeries", "CurrentTyres"}
      [] h = "pitlane" -> {"PitLaneTimeCollection", "PitStop", "PitStopSeries"}
      [] h = "telemetry" -> {"Position.z", "CarData.z"}
      [] h = "radio" -> {"TeamRadio"}

\* key.replace(".z", ""): telemetry.py:137,145
StoreKey(topic) ==
    CASE topic = "Position.z" -> "Position"
      [] topic = "CarData.z" -> "CarData"
      [] OTHER -> topic

\* The keys of the store the handlers read or write; SessionInfo is written by
\* another process and read at radio.py:190.
AllTopics ==
    LET subscribed == UNION {Topics(h) : h \in Handlers} IN
    subscribed \cup {StoreKey(t) : t \in subscribed} \cup {"Heartbeat", "SessionInfo"}

\* One record of a frame's "M" list and the frame envelope.  R is the list of
\* (topic, snapshot) pairs of messages["R"].items(), M the list of messages["M"];
\* kind "malformed" is text json.loads rejects, "empty" the object {}.
Rec(hub, topic, delta) == [H |-> hub, A |-> <<topic, delta>>]
Frame(r, m) == [kind |-> "json", R |-> r, M |-> m]
EmptyFrame == [kind |-> "empty", R |-> <<>>, M |-> <<>>]
Malformed == [kind |-> "malformed", R |-> <<>>, M |-> <<>>]

\* Payloads fed to the tyre and pit-lane handlers.
sA == D("a" :> S(1))
sKf == D("_kf" :> S(1) @@ "a" :> S(1))
dB == D("b" :> S(2))
dA == D("a" :> S(3))

\* ------------------------------------------------------ compressed payloads
\* Text is a sequence of character codes, binary data a sequence of bytes
\* (0..255), base64 text a sequence of digit values 0..63 with 64 for "=".
\* The characters of the dict keys the compressed payloads use.
KeyText(k) ==
    CASE k = "a" -> <<97>>
      [] k = "b" -> <<98>>
      [] k = "x" -> <<120>>
      [] k = "_kf" -> <<95, 107, 102>>
      [] k = "0" -> <<48>>
      [] k = "1" -> <<49>>

TextKeys == {"a", "b", "x", "_kf", "0", "1"}

\* The sender's side, as the feed documents it: the value serialised as JSON
\* text (", " and ": " separators), deflated without zlib/gzip header (here
\* as one final stored block: 0x01, LEN, ~LEN, the bytes), base64-encoded.
RECURSIVE Digits(_)
Digits(n) == IF n < 10 THEN <<48 + n>> ELSE Digits(n \div 10) \o <<48 + (n % 10)>>

RECURSIVE Join(_)
Join(ss) ==
    IF ss = <<>> THEN <<>>
    ELSE IF Len(ss) = 1 THEN ss[1]
    ELSE ss[1] \o <<44, 32>> \o Join(Tail(ss))

RECURSIVE dumps(_)
dumps(x) ==
    CASE x.t = "s" -> Digits(x.v)
      [] x.t = "none" -> <<110, 117, 108, 108>>
      [] x.t = "l" -> <<91>> \o Join([i \in 1..Len(x.v) |-> dumps(x.v[i])]) \o <<93>>
      [] x.t = "m" ->
           LET ks == InOrder(Keys(x))
           IN <<123>> \o Join([i \in 1..Len(ks) |->
                                  <<34>> \o KeyText(ks[i]) \o <<34, 58, 32>>
                                      \o dumps(x.v[ks[i]])]) \o <<125>>

rawDeflate(data) ==
    <<1, Len(data) % 256, Len(data) \div 256,
      255 - (Len(data) % 256), 255 - (Len(data) \div 256)>> \o data

RECURSIVE b64encode(_)
b64encode(bytes) ==
    IF bytes = <<>> THEN <<>>
    ELSE LET b1 == bytes[1] IN
         IF Len(bytes) = 1
         THEN <<b1 \div 4, (b1 % 4) * 16, 64, 64>>
         ELSE LET b2 == bytes[2] IN
              IF Len(bytes) = 2
              THEN <<b1 \div 4, (b1 % 4) * 16 + (b2 \div 16), (b2 % 16) * 4, 64>>
              ELSE LET b3 == bytes[3] IN
                   <<b1 \div 4, (b1 % 4) * 16 + (b2 \div 16),
                     (b2 % 16) * 4 + (b3 \div 64), b3 % 64>>
                       \o b64encode(SubSeq(bytes, 4, Len(bytes)))

\* A compressed payload as it arrives in a frame: a str holding base64 text.
Z(x) == [t |-> "z", v |-> b64encode(rawDeflate(dumps(x)))]
IsCompressed(x) == x.t = "z"

\* The receiver's side: telemetry.py:131-133 and 149-151,
\* json.loads(zlib.decompress(base64.b64decode(value_zip), -zlib.MAX_WBITS)).
\* What a step of it that raises hands on.
DecodeError == [t |-> "error", v |-> 0]

\* What b64decode or inflate hands on when it raises.
BadBytes == <<-1>>

\* base64.b64decode: four digits give three bytes, "=" pads the last group.
RECURSIVE b64decode(_)
b64decode(text) ==
    IF text = <<>> THEN <<>>
    ELSE IF Len(text) < 4 \/ text[1] = 64 \/ text[2] = 64 THEN BadBytes
    ELSE LET c1 == text[1]
             c2 == text[2]
             c3 == text[3]
             c4 == text[4]
             rest == SubSeq(text, 5, Len(text))
             first == <<c1 * 4 + (c2 \div 16)>>
         IN IF c3 = 64
            THEN IF c4 = 64 /\ rest = <<>> THEN first ELSE BadBytes
            ELSE LET second == <<(c2 % 16) * 16 + (c3 \div 4)>> IN
                 IF c4 = 64
                 THEN IF rest = <<>> THEN first \o second ELSE BadBytes
                 ELSE LET more == b64decode(rest) IN
                      IF more = BadBytes THEN BadBytes
                      ELSE first \o second \o <<(c3 % 4) * 64 + c4>> \o more

\* An inflate that expects the two-byte zlib header in front of the stream
\* (zlib.decompress with its default wbits).
inflateWithHeader(raw) ==
    IF raw = BadBytes \/ Len(raw) < 7 THEN BadBytes
    ELSE IF raw[1] # 120 THEN BadBytes
    ELSE SubSeq(raw, 8, Len(raw))

\* zlib.decompress(raw, -zlib.MAX_WBITS): a raw deflate stream with no header
\* and no checksum.  The model inflates a final stored block; anything else
\* raises zlib.error.
inflate(raw) ==
    IF raw = BadBytes \/ Len(raw) < 5 THEN BadBytes
    ELSE LET len == raw[2] + 256 * raw[3] IN
         IF /\ raw[1] = 1
            /\ raw[4] = 255 - raw[2]
            /\ raw[5] = 255 - raw[3]
            /\ Len(raw) = 5 + len
         THEN SubSeq(raw, 6, Len(raw))
         ELSE BadBytes

\* json.loads: a recursive-descent reading of the text.  A parse result is
\* [ok, v, pos]: the value read and the position after it.
NoParse == [ok |-> FALSE, v |-> DecodeError, pos |-> 0]

RECURSIVE SkipWs(_, _)
SkipWs(text, p) ==
    IF p <= Len(text) /\ text[p] \in {32, 9, 10, 13} THEN SkipWs(text, p + 1) ELSE p

RECURSIVE ParseNumber(_, _, _)
ParseNumber(text, p, acc) ==
    IF p <= Len(text) /\ text[p] \in 48..57
    THEN ParseNumber(text, p + 1, 10 * acc + (text[p] - 48))
    ELSE [ok |-> TRUE, v |-> S(acc), pos |-> p]

RECURSIVE FindQuote(_, _)
FindQuote(text, p) ==
    IF p > Len(text) THEN 0
    ELSE IF text[p] = 34 THEN p
    ELSE FindQuote(text, p + 1)

\* The key a quoted text names (the payloads use the keys of TextKeys only).
KeyOf(chars) ==
    IF \E k \in TextKeys : KeyText(k) = chars
    THEN CHOOSE k \in TextKeys : KeyText(k) = chars
    ELSE "?"

RECURSIVE ParseValue(_, _)
RECURSIVE ParseElems(_, _, _)
RECURSIVE ParseMembers(_, _, _)
ParseValue(text, p0) ==
    LET p == SkipWs(text, p0) IN
    IF p > Len(text) THEN NoParse
    ELSE CASE text[p] = 123 ->
                LET q == SkipWs(text, p + 1) IN
                IF q <= Len(text) /\ text[q] = 125
                THEN [ok |-> TRUE, v |-> EmptyDict, pos |-> q + 1]
                ELSE ParseMembers(text, q, <<>>)
           [] text[p] = 91 ->
                LET q == SkipWs(text, p + 1) IN
                IF q <= Len(text) /\ text[q] = 93
                THEN [ok |-> TRUE, v |-> L(<<>>), pos |-> q + 1]
                ELSE ParseElems(text, q, <<>>)
           [] text[p] \in 48..57 -> ParseNumber(text, p, 0)
           [] text[p] = 110 ->
                IF p + 3 <= Len(text) /\ SubSeq(text, p, p + 3) = <<110, 117, 108, 108>>
                THEN [ok |-> TRUE, v |-> Absent, pos |-> p + 4]
                ELSE NoParse
           [] OTHER -> NoParse

ParseElems(text, p, acc) ==
    LET r == ParseValue(text, p) IN
    IF ~r.ok THEN NoParse
    ELSE LET q == SkipWs(text, r.pos) IN
         IF q > Len(text) THEN NoParse
         ELSE IF text[q] = 44 THEN ParseElems(text, q + 1, Append(acc, r.v))
         ELSE IF text[q] = 93
              THEN [ok |-> TRUE, v |-> L(Append(acc, r.v)), pos |-> q + 1]
         ELSE NoParse

ParseMembers(text, p0, acc) ==
    LET p == SkipWs(text, p0) IN
    IF p > Len(text) \/ text[p] # 34 THEN NoParse
    ELSE LET e == FindQuote(text, p + 1) IN
         IF e = 0 THEN NoParse
         ELSE LET key == KeyOf(SubSeq(text, p + 1, e - 1))
                  c == SkipWs(text, e + 1)
              IN IF key = "?" \/ c > Len(text) \/ text[c] # 58 THEN NoParse
                 ELSE LET r == ParseValue(text, c + 1) IN
                      IF ~r.ok THEN NoParse
                      ELSE LET q == SkipWs(text, r.pos)
                               now == (key :> r.v) @@ acc
                           IN IF q > Len(text) THEN NoParse
                              ELSE IF text[q] = 44 THEN ParseMembers(text, q + 1, now)
                              ELSE IF text[q] = 125
                                   THEN [ok |-> TRUE, v |-> D(now), pos |-> q + 1]
                              ELSE NoParse

loads(text) ==
    IF text = BadBytes THEN DecodeError
    ELSE LET r == ParseValue(text, 1) IN
         IF r.ok /\ SkipWs(text, r.pos) > Len(text) THEN r.v ELSE DecodeError

\* The value a payload decodes to, or DecodeError when a step raises (a
\* payload that is not a str makes b64decode raise).
decompress(x) ==
    IF ~IsCompressed(x) THEN DecodeError ELSE loads(inflate(b64decode(x.v)))

\* Payloads fed to the radio handler.
sInfo == D("Path" :> S(1))
Capture(n) == D("Path" :> S(n))
rS == D("_kf" :> S(1) @@ "Captures" :> L(<<Capture(1)>>))
rDict == D("Captures" :> D("1" :> Capture(2)))
rList == D("Captures" :> L(<<Capture(3)>>))
rTwo == D("Captures" :> L(<<Capture(4), Capture(5)>>))

\* Payloads fed to the timing handler.
Line(k, entry) == D("Lines" :> D(k :> entry))
LLT(f) == D("LastLapTime" :> f)
tS == D("_kf" :> S(1) @@ "Lines" :> D("44" :> D("Gap" :> S(5))))
tValue(n) == Line("44", LLT(D("Value" :> S(n))))
tPF == Line("44", D("LastLapTime" :> D("PersonalFastest" :> S(1)) @@ "Gap" :> S(7)))
tTwo == D("Lines" :> D("44" :> D("Gap" :> S(8)) @@ "1" :> LLT(D("Value" :> S(3)))))

PlainFrames(t1, t2) ==
    { Frame(<<<<t1, sA>>>>, <<>>),
      Frame(<<<<t1, sKf>>>>, <<>>),
      Frame(<<>>, <<Rec("Streaming", t1, dB)>>),
      Frame(<<>>, <<Rec("Streaming", t1, dA)>>),
      Frame(<<>>, <<Rec("Streaming", t1, dB), Rec("Streaming", t1, dA)>>),
      Frame(<<<<t1, sA>>>>, <<Rec("Streaming", t1, dB)>>),
      Frame(<<<<t1, sA>>, <<t2, sA>>>>, <<>>),
      Frame(<<>>, <<Rec("Streaming", t2, dB)>>),
      Frame(<<>>, <<Rec("Streaming", "Heartbeat", dA)>>),
      Frame(<<>>, <<Rec("Other", t1, dA)>>),
      EmptyFrame,
      Malformed }

TimingFrames ==
    LET t == "TimingDataF1" IN
    { Frame(<<<<t, tS>>>>, <<>>),
      Frame(<<>>, <<Rec("Streaming", t, tValue(1))>>),
      Frame(<<>>, <<Rec("Streaming", t, tPF)>>),
      Frame(<<>>, <<Rec("Streaming", t, tTwo)>>),
      Frame(<<>>, <<Rec("Streaming", "Heartbeat", dA)>>),
      Frame(<<>>, <<Rec("Other", t, tTwo)>>),
      EmptyFrame,
      Malformed }

TelemetryFrames ==
    LET t == "Position.z" IN
    { Frame(<<<<t, Z(sKf)>>>>, <<>>),
      Frame(<<>>, <<Rec("Streaming", t, Z(dB))>>),
      Frame(<<>>, <<Rec("Streaming", t, Z(dA))>>),
      Frame(<<>>, <<Rec("Streaming", "CarData.z", Z(dB))>>),
      Frame(<<>>, <<Rec("Streaming", "Heartbeat", dA), Rec("Streaming", t, Z(dB))>>),
      Frame(<<>>, <<Rec("Other", t, Z(dA)), Rec("Streaming", t, Z(dB))>>),
      EmptyFrame,
      Malformed }

RadioFrames ==
    LET t == "TeamRadio" IN
    { Frame(<<<<t, rS>>>>, <<>>),
      Frame(<<>>, <<Rec("Streaming", t, rDict)>>),
      Frame(<<>>, <<Rec("Streaming", t, rList)>>),
      Frame(<<>>, <<Rec("Streaming", t, rTwo)>>),
      Frame(<<>>, <<Rec("Streaming", "Heartbeat", dA), Rec("Streaming", t, rDict)>>),
      Frame(<<>>, <<Rec("Other", t, rList), Rec("Streaming", t, rDict)>>),
      EmptyFrame,
      Malformed }

Frames(h) ==
    CASE h = "timing" -> TimingFrames
      [] h = "tyre" -> PlainFrames("CurrentTyres", "TyreStintSeries")
      [] h = "pitlane" -> PlainFrames("PitStop", "PitLaneTimeCollection")
      [] h = "telemetry" -> TelemetryFrames
      [] h = "radio" -> RadioFrames

\* The race numbers the timing feed names (keys of the debouncer table).
Drivers == {"44", "1"}

\* Debouncer.debounce_task: None, or the _delayed_publish task it references:
\* "sleep" in asyncio.sleep with rem units left, "sent" the PUBLISH is at the
\* server and its reply awaited, "dead" ended by an exception (the reference
\* is kept).
NoTask == [st |-> "none", rem |-> 0]

\* ------------------------------------------------------------------- state
VARIABLES
    handler,       \* which publisher script runs
    RETRY,         \* load_config()'s RETRY flag
    redis_client,  \* the store connection: "none" | "open" | "closed"
    pc,            \* position of the connect loop
    params,        \* the params negotiate() returned to the loop
    sock,          \* "closed" | "open"
    subs,          \* Subscribe frames sent on the current socket
    nevents,       \* frames received and failures suffered so far
    pendR,         \* snapshots of the current frame not yet handled
    pendM,         \* records of the current frame not yet handled
    error,         \* what the last except branch caught
    store,         \* the Redis JSON store: topic -> value | Absent
    persistTasks,  \* spawned, not yet landed json().set tasks
    pubTasks,      \* spawned, not yet landed publish tasks
    published,     \* the PUBLISH log of the record publishes
    flushed,       \* the PUBLISH log of the debounced publishes
    message,       \* Debouncer.message per race number
    debounce_task, \* Debouncer.debounce_task per race number
    pubFailed,     \* history: a debounced publish has raised
    buf,           \* history: the add_message calls a buffer holds, per race number
    narr,          \* history: add_message calls so far
    age,           \* history: time units since the last add_message, per race number
    canon,         \* history: the deltas folded in arrival order, per topic
    foldRaw,       \* history: the same fold over the payloads as received
    refSnap,       \* history: the last snapshot set and not yet patched
    nrec,          \* history: entries of the current frame already written or published
    applied,       \* the deltas handed to updateDictDelta so far, in call order
    trail,         \* the base, then the value each updateDictDelta call returned
    lapIn,         \* the delta handed to the LastLapTime extraction
    lapOut,        \* what the extraction made of it
    plain,         \* the value handed to the sender's encoding
    wire,          \* the payload it was encoded to (Absent: not yet)
    decoded        \* what decompress made of the payload (Absent: not yet)

conn == <<handler, RETRY, redis_client, pc, params, sock, subs, nevents, pendR, pendM, error>>
hist == <<canon, foldRaw, refSnap, nrec>>
tasks == <<persistTasks, pubTasks, published, flushed>>
deb == <<message, debounce_task, pubFailed, buf, narr, age>>
calc == <<applied, trail, lapIn, lapOut, plain, wire, decoded>>
vars == <<conn, store, tasks, deb, hist, calc>>

\* The publisher before its first negotiate().
AtStart ==
    /\ handler \in Handlers
    /\ RETRY \in BOOLEAN
    /\ redis_client = IF handler = "pitlane" THEN "none" ELSE "open"
    /\ pc = "negotiate"
    /\ params = "none"
    /\ sock = "closed"
    /\ subs = 0
    /\ nevents = 0
    /\ pendR = <<>>
    /\ pendM = <<>>
    /\ error = "none"
    /\ \E si \in (IF handler = "radio" THEN {Absent, sInfo} ELSE {Absent}) :
           store = [t \in AllTopics |-> IF t = "SessionInfo" THEN si ELSE Absent]
    /\ persistTasks = {}
    /\ pubTasks = <<>>
    /\ published = <<>>
    /\ flushed = <<>>
    /\ message = [k \in Drivers |-> EmptyDict]
    /\ debounce_task = [k \in Drivers |-> NoTask]
    /\ pubFailed = FALSE
    /\ buf = [k \in Drivers |-> <<>>]
    /\ narr = 0
    /\ age = [k \in Drivers |-> 0]
    /\ canon = [t \in AllTopics |-> Absent]
    /\ foldRaw = [t \in AllTopics |-> Absent]
    /\ refSnap = [t \in AllTopics |-> Absent]
    /\ nrec = 0

\* No extraction has run.
NoSplit == [done |-> FALSE, adds |-> <<>>, rest |-> Absent, pub |-> FALSE]

Init ==
    /\ AtStart
    /\ applied = <<>>
    /\ trail = <<EmptyDict>>
    /\ lapIn = EmptyDict
    /\ lapOut = NoSplit
    /\ plain = EmptyDict
    /\ wire = Absent
    /\ decoded = Absent

\* ------------------------------------------------------------ connect loop
\* negotiate(): what the function hands back for each outcome of the HTTP call.
\* timing.py:82-116 / tyre.py:40-82 catch RequestException only, so a response
\* without ConnectionToken raises KeyError out of negotiate(); pitlane.py:41-66
\* catches everything and then returns None implicitly.
negotiate(h, outcome) ==
    IF h = "pitlane"
    THEN IF outcome = "ok" THEN "params" ELSE "None"
    ELSE CASE outcome = "ok" -> "params"
           [] outcome = "http_error" -> "none4"
           [] outcome = "no_token" -> "KeyError"

\* The retry policy of the except branches: timing.py:214-227, tyre.py:154-167
\* (sleep 5 then continue, or break); pitlane.py:113-119 (continue, or break).
\* A retry policy that gives up whatever the RETRY setting says.
RetryPcGiveUp(h, retry) == "terminated"

RetryPc(h, retry) ==
    IF retry
    THEN IF h = "pitlane" THEN "negotiate" ELSE "backoff"
    ELSE "terminated"

\* A negotiate() of a connect loop that builds its debouncer table anew on
\* every pass: the buckets and timers of the last connection are gone.
NegotiateFreshBuckets(outcome) ==
    /\ pc = "negotiate"
    /\ outcome # "ok" => nevents < MaxEvents
    /\ nevents' = IF outcome = "ok" THEN nevents ELSE nevents + 1
    /\ params' = IF outcome = "ok" THEN "token" ELSE "none"
    /\ pc' = IF outcome = "ok" THEN "connect" ELSE RetryPc(handler, RETRY)
    /\ message' = [k \in DOMAIN message |-> EmptyDict]
    /\ debounce_task' = [k \in DOMAIN debounce_task |-> NoTask]
    /\ buf' = [k \in DOMAIN buf |-> <<>>]
    /\ UNCHANGED <<handler, RETRY, redis_client, sock, subs, pendR, pendM, error>>
    /\ UNCHANGED <<store, tasks, pubFailed, narr, age, hist>>
    /\ UNCHANGED calc

\* timing.py:128-134, tyre.py:94-100, pitlane.py:70
Negotiate(outcome) ==
    /\ pc = "negotiate"
    /\ outcome # "ok" => nevents < MaxEvents
    /\ nevents' = IF outcome = "ok" THEN nevents ELSE nevents + 1
    /\ LET res == negotiate(handler, outcome) IN
       /\ params' = IF res = "params" THEN "token" ELSE "none"
       /\ pc' = CASE res = "params" -> "connect"
                  [] res = "none4" -> RetryPc(handler, RETRY)
                  [] res = "KeyError" -> "crashed"
                  [] res = "None" -> "crashed"
       /\ redis_client' = IF handler = "pitlane" /\ res = "params" THEN "open"
                          ELSE redis_client
    /\ UNCHANGED <<handler, RETRY, sock, subs, pendR, pendM, error>>
    /\ UNCHANGED <<store, tasks, deb, hist>>
    /\ UNCHANGED calc

\* asyncio.sleep(5) of the retry branches
Backoff ==
    /\ pc = "backoff"
    /\ pc' = "negotiate"
    /\ UNCHANGED <<handler, RETRY, redis_client, params, sock, subs, nevents, pendR, pendM, error>>
    /\ UNCHANGED <<store, tasks, deb, hist>>
    /\ UNCHANGED calc

\* The except branches around the socket (timing.py:214-227, tyre.py:154-167,
\* pitlane.py:113-119): the socket is closed, the rest of the frame is dropped
\* and the retry policy applies.
\* The store connection once the try statement around the socket is left:
\* pitlane.py:113-121 closes it (in the except branch without retry, and in the
\* finally block always); timing.py:214-227, tyre.py:154-167, telemetry.py:164-177
\* and radio.py:212-225 have no close call.
Released(h, client) == IF h = "pitlane" THEN "closed" ELSE client

\* An except branch that notes the error and goes on reading the same socket.
OnErrorKeepReading(what) ==
    /\ error' = what
    /\ UNCHANGED <<handler, RETRY, redis_client, pc, params, sock, subs, pendR, pendM>>

OnError(what) ==
    /\ error' = what
    /\ pc' = RetryPc(handler, RETRY)
    /\ sock' = "closed"
    /\ subs' = 0
    /\ pendR' = <<>>
    /\ pendM' = <<>>
    /\ redis_client' = Released(handler, redis_client)
    /\ UNCHANGED <<handler, RETRY, params>>

\* websockets.connect + sock.send(Subscribe): timing.py:137-151, tyre.py:104-119,
\* pitlane.py:74-95.  In pitlane.py the connect is outside the try block.
\* A connect that opens the socket and starts reading without a Subscribe.
ConnectNoSubscribe(ok) ==
    /\ pc = "connect"
    /\ ~ok => nevents < MaxEvents
    /\ nevents' = IF ok THEN nevents ELSE nevents + 1
    /\ IF ok
       THEN /\ sock' = "open"
            /\ pc' = "recv"
            /\ UNCHANGED <<handler, RETRY, redis_client, params, subs, pendR, pendM, error>>
       ELSE IF handler = "pitlane"
            THEN /\ pc' = "crashed"
                 /\ UNCHANGED <<handler, RETRY, redis_client, params, sock, subs, pendR, pendM, error>>
            ELSE OnError("connect")
    /\ UNCHANGED <<store, tasks, deb, hist>>
    /\ UNCHANGED calc

Connect(ok) ==
    /\ pc = "connect"
    /\ ~ok => nevents < MaxEvents
    /\ nevents' = IF ok THEN nevents ELSE nevents + 1
    /\ IF ok
       THEN /\ sock' = "open"
            /\ subs' = 1
            /\ pc' = "recv"
            /\ UNCHANGED <<handler, RETRY, redis_client, params, pendR, pendM, error>>
       ELSE IF handler = "pitlane"
            THEN /\ pc' = "crashed"
                 /\ UNCHANGED <<handler, RETRY, redis_client, params, sock, subs, pendR, pendM, error>>
            ELSE OnError("connect")
    /\ UNCHANGED <<store, tasks, deb, hist>>
    /\ UNCHANGED calc

\* sock.recv() raises ConnectionClosed: timing.py:214, tyre.py:154, pitlane.py:113
TransportError ==
    /\ pc = "recv"
    /\ nevents < MaxEvents
    /\ nevents' = nevents + 1
    /\ OnError("ConnectionClosed")
    /\ UNCHANGED <<store, tasks, deb, hist>>
    /\ UNCHANGED calc

\* The task running the connect loop is cancelled (shutdown) while it waits in
\* an await.  timing.py:214, tyre.py:154, telemetry.py:164 and radio.py:212
\* catch asyncio.CancelledError together with ConnectionClosed, so a
\* cancellation inside the try block is handled by the retry policy; one that
\* arrives during asyncio.sleep(5) (timing.py:131,218,225) is outside every try
\* block and ends the task.  pitlane.py:113 catches Exception only, which
\* CancelledError is not: the finally block runs and the task ends.
Cancel ==
    /\ pc \in {"connect", "recv", "frame", "backoff"}
    /\ nevents < MaxEvents
    /\ nevents' = nevents + 1
    /\ IF handler = "pitlane" \/ pc = "backoff"
       THEN /\ pc' = "crashed"
            /\ error' = "cancelled"
            /\ sock' = "closed"
            /\ subs' = 0
            /\ pendR' = <<>>
            /\ pendM' = <<>>
            /\ redis_client' = IF pc \in {"recv", "frame"}
                               THEN Released(handler, redis_client)
                               ELSE redis_client
            /\ UNCHANGED <<handler, RETRY, params>>
       ELSE OnError("CancelledError")
    /\ nrec' = 0
    /\ UNCHANGED <<store, tasks, deb, canon, foldRaw, refSnap>>
    /\ UNCHANGED calc

\* json.loads(await sock.recv()): timing.py:154, tyre.py:123, pitlane.py:97.
\* pitlane.py's `while messages := ...` leaves the loop on a falsy frame and
\* falls through to the next negotiate().
RecvFrame(f) ==
    /\ pc = "recv"
    /\ nevents < MaxEvents
    /\ nevents' = nevents + 1
    /\ CASE f.kind = "malformed" -> OnError("JSONDecodeError")
         [] f.kind = "empty" /\ handler = "pitlane" ->
              /\ pc' = "negotiate"
              /\ sock' = "closed"
              /\ subs' = 0
              /\ redis_client' = Released(handler, redis_client)
              /\ UNCHANGED <<handler, RETRY, params, pendR, pendM, error>>
         [] OTHER ->
              /\ pendR' = f.R
              /\ pendM' = f.M
              /\ pc' = IF f.R = <<>> /\ f.M = <<>> THEN "recv" ELSE "frame"
              /\ UNCHANGED <<handler, RETRY, redis_client, params, sock, subs, error>>
    /\ UNCHANGED <<store, tasks, deb, hist>>
    /\ UNCHANGED calc

\* ---------------------------------------------------------- frame dispatch
\* An entry of the PUBLISH log of the record publishes.
Pub(channel, payload) == [channel |-> channel, payload |-> payload]

\* `reference = updateDictDelta(reference or {}, delta)`: timing.py:171, tyre.py:143
\* A delta handler that stores the delta in place of the merged state.
MergeOntoReplace(reference, delta) == delta

\* A delta handler whose merge stops before its first key and writes anyway.
MergeOntoUnmerged(reference, delta) == OrEmpty(reference)

\* A delta handler whose merged state is written as it is after the
\* LastLapTime extraction has popped the leaves out of the delta.
MergeOntoAfterExtraction(reference, delta) ==
    updateDictDelta(OrEmpty(reference),
        IF "Lines" \notin Keys(delta) THEN delta
        ELSE D([k \in Keys(delta) |->
                 IF k = "Lines"
                 THEN D([r \in Keys(delta.v[k]) |-> Pop(delta.v[k].v[r], "LastLapTime")])
                 ELSE delta.v[k]]))

MergeOnto(reference, delta) == updateDictDelta(OrEmpty(reference), delta)

\* value.pop("_kf", None): timing.py:158,165 and tyre.py:128,136; pitlane.py pops nothing
StripKf(h, value) == IF h = "pitlane" THEN value ELSE Pop(value, "_kf")

\* The read loop goes back to recv() once the frame's lists are exhausted.
NextPc(r, m) == IF r = <<>> /\ m = <<>> THEN "recv" ELSE "frame"

\* History: one more entry of the frame has been written or published; the
\* count starts again with the next frame.
Handled(r, m) == IF r = <<>> /\ m = <<>> THEN 0 ELSE nrec + 1

\* One (key, value) of messages["R"]: timing.py:156-159, tyre.py:126-129,
\* pitlane.py:99-101.  The set is awaited.
ProcessRef ==
    /\ pc = "frame"
    /\ pendR # <<>>
    /\ handler # "telemetry"
    /\ LET key == Head(pendR)[1]
           raw == Head(pendR)[2]
           value == StripKf(handler, raw)
       IN /\ store' = [store EXCEPT ![key] = value]
          /\ canon' = [canon EXCEPT ![key] = value]
          /\ foldRaw' = [foldRaw EXCEPT ![key] = raw]
          /\ refSnap' = [refSnap EXCEPT ![key] = value]
    /\ nrec' = Handled(Tail(pendR), pendM)
    /\ pendR' = Tail(pendR)
    /\ pc' = NextPc(Tail(pendR), pendM)
    /\ UNCHANGED <<handler, RETRY, redis_client, params, sock, subs, nevents, pendM, error, tasks, deb>>
    /\ UNCHANGED calc

AtRecord == pc = "frame" /\ pendR = <<>> /\ pendM # <<>>
Channel == Head(pendM).A[1]
RawDelta == Head(pendM).A[2]

RecordDone ==
    /\ pendM' = Tail(pendM)
    /\ pc' = NextPc(<<>>, Tail(pendM))
    /\ UNCHANGED <<handler, RETRY, redis_client, params, sock, subs, nevents, pendR, error>>

\* History of a merged record: the fold the claims speak of.
Folded(channel, raw, delta) ==
    /\ canon' = [canon EXCEPT ![channel] = updateDictDelta(OrEmpty(@), delta)]
    /\ foldRaw' = [foldRaw EXCEPT ![channel] =
                      IF @ = Absent THEN @ ELSE updateDictDelta(@, raw)]
    /\ refSnap' = [refSnap EXCEPT ![channel] = Absent]
    /\ nrec' = Handled(<<>>, Tail(pendM))

\* msg["H"] != "Streaming", or the Heartbeat `continue` (timing.py:163-168,
\* tyre.py:134-139, radio.py:181-186); pitlane.py:105 and telemetry.py:143 have
\* the hub test only.
SkipRecord ==
    /\ AtRecord
    /\ \/ Head(pendM).H # "Streaming"
       \/ handler \notin {"pitlane", "telemetry"} /\ Channel = "Heartbeat"
    /\ RecordDone
    /\ UNCHANGED <<store, tasks, deb, hist>>
    /\ UNCHANGED calc

\* tyre.py:135-152: get, merge, awaited set, spawned publish of the delta.
TyreDelta ==
    /\ AtRecord
    /\ handler = "tyre"
    /\ Head(pendM).H = "Streaming"
    /\ Channel # "Heartbeat"
    /\ LET delta == StripKf(handler, RawDelta)
           reference == MergeOnto(store[Channel], delta)
       IN /\ store' = [store EXCEPT ![Channel] = reference]
          /\ pubTasks' = Append(pubTasks, Pub(Channel, delta))
          /\ Folded(Channel, RawDelta, delta)
    /\ RecordDone
    /\ UNCHANGED <<persistTasks, published, flushed, deb>>
    /\ UNCHANGED calc

\* pitlane.py:105-111: get, merge (no `or {}`: a missing key makes
\* updateDictDelta raise TypeError), spawned set, spawned publish.
PitLaneDelta ==
    /\ AtRecord
    /\ handler = "pitlane"
    /\ Head(pendM).H = "Streaming"
    /\ IF store[Channel] = Absent
       THEN /\ OnError("TypeError")
            /\ nrec' = 0
            /\ UNCHANGED <<nevents, store, tasks, deb, canon, foldRaw, refSnap>>
       ELSE /\ LET reference == updateDictDelta(store[Channel], RawDelta)
               IN persistTasks' = persistTasks \cup
                      {[topic |-> Channel, value |-> reference]}
            /\ pubTasks' = Append(pubTasks, Pub(Channel, RawDelta))
            /\ Folded(Channel, RawDelta, RawDelta)
            /\ RecordDone
            /\ UNCHANGED <<store, published, flushed, deb>>
    /\ UNCHANGED calc

\* One (key, value_zip) of messages["R"]: telemetry.py:129-138.  The value is
\* decompressed, _kf popped, and set (awaited) under the key without ".z".
TelemetryRef ==
    /\ pc = "frame"
    /\ pendR # <<>>
    /\ handler = "telemetry"
    /\ LET key == StoreKey(Head(pendR)[1])
           value_zip == Head(pendR)[2]
       IN IF decompress(value_zip) = DecodeError
          THEN /\ OnError("Exception")
               /\ nrec' = 0
               /\ UNCHANGED <<nevents, store, tasks, deb, canon, foldRaw, refSnap>>
          ELSE LET value == Pop(decompress(value_zip), "_kf") IN
               /\ store' = [store EXCEPT ![key] = value]
               /\ canon' = [canon EXCEPT ![key] = value]
               /\ foldRaw' = [foldRaw EXCEPT ![key] = decompress(value_zip)]
               /\ refSnap' = [refSnap EXCEPT ![key] = value]
               /\ nrec' = Handled(Tail(pendR), pendM)
               /\ pendR' = Tail(pendR)
               /\ pc' = NextPc(Tail(pendR), pendM)
               /\ UNCHANGED <<handler, RETRY, redis_client, params, sock, subs, nevents, pendM,
                              error, tasks, deb>>
    /\ UNCHANGED calc

\* telemetry.py:143-162: every Streaming record is decompressed (a payload that
\* is not compressed text, such as a Heartbeat's, makes b64decode raise), _kf is
\* popped, the value is set (awaited) as the topic's state and published.
TelemetryDelta ==
    /\ AtRecord
    /\ handler = "telemetry"
    /\ Head(pendM).H = "Streaming"
    /\ IF decompress(RawDelta) = DecodeError
       THEN /\ OnError("Exception")
            /\ nrec' = 0
            /\ UNCHANGED <<nevents, store, tasks, deb, canon, foldRaw, refSnap>>
       ELSE LET channel == StoreKey(Channel)
                value == Pop(decompress(RawDelta), "_kf")
            IN /\ store' = [store EXCEPT ![channel] = value]
               /\ pubTasks' = Append(pubTasks, Pub(channel, value))
               /\ Folded(channel, decompress(RawDelta), value)
               /\ RecordDone
               /\ UNCHANGED <<persistTasks, published, flushed, deb>>
    /\ UNCHANGED calc

\* radio.py:197-199: the captures a delta names, a list or a dict of them.
CapturesOf(delta) ==
    IF "Captures" \notin Keys(delta) THEN <<>>
    ELSE LET captures == delta.v["Captures"] IN
         IF IsDict(captures)
         THEN LET order == InOrder(Keys(captures))
              IN [i \in 1..Len(order) |-> captures.v[order[i]]]
         ELSE captures.v

\* radio.py:90-122 captureHandler, for a capture whose download and
\* transcription succeed: the capture with its Message, wrapped for publishing.
\* A captureHandler that publishes the capture as it came, without transcript.
CapturePayloadNoTranscript(capture) == D("Captures" :> L(<<capture>>))

CapturePayload(capture) ==
    D("Captures" :> L(<<D(capture.v @@ ("Message" :> S(9)))>>))

\* asyncio.create_task(captureHandler(redis_client, channel, transcriber,
\* sessionInfo, capture)): radio.py:201-210.  `task` tells the Task objects apart.
CaptureTask(channel, sessionInfo, capture, task) ==
    [channel |-> channel, sessionInfo |-> sessionInfo, capture |-> capture,
     task |-> task]

\* radio.py:181-210: get, merge, awaited set, one captureHandler task per
\* capture, each with the SessionInfo read for this record.
RadioDelta ==
    /\ AtRecord
    /\ handler = "radio"
    /\ Head(pendM).H = "Streaming"
    /\ Channel # "Heartbeat"
    /\ LET delta == StripKf(handler, RawDelta)
           reference == MergeOnto(store[Channel], delta)
           captures == CapturesOf(delta)
       IN /\ store' = [store EXCEPT ![Channel] = reference]
          /\ pubTasks' = pubTasks \o [i \in 1..Len(captures) |->
                             CaptureTask(Channel, store["SessionInfo"], captures[i],
                                         <<nevents, Len(pendM), i>>)]
          /\ Folded(Channel, RawDelta, delta)
    /\ RecordDone
    /\ UNCHANGED <<persistTasks, published, flushed, deb>>
    /\ UNCHANGED calc

\* A spawned redis_client.json().set(...) reaches the store (timing.py:172-174,
\* pitlane.py:109).  The value was serialised when the task was spawned.
\* A landing write that replaces the whole store by the one topic it carries.
PersistTaskWhole(t) ==
    /\ t \in persistTasks
    /\ store' = [k \in AllTopics |-> IF k = t.topic THEN t.value ELSE Absent]
    /\ persistTasks' = persistTasks \ {t}
    /\ UNCHANGED <<conn, pubTasks, published, flushed, deb, hist>>
    /\ UNCHANGED calc

PersistTask(t) ==
    /\ t \in persistTasks
    /\ store' = [store EXCEPT ![t.topic] = t.value]
    /\ persistTasks' = persistTasks \ {t}
    /\ UNCHANGED <<conn, pubTasks, published, flushed, deb, hist>>
    /\ UNCHANGED calc

\* A spawned redis_client.publish(...) reaches the subscribers (timing.py:210-212,
\* tyre.py:150-152, pitlane.py:111).
PublishTask ==
    /\ handler # "radio"
    /\ pubTasks # <<>>
    /\ published' = Append(published, Head(pubTasks))
    /\ pubTasks' = Tail(pubTasks)
    /\ UNCHANGED <<conn, store, persistTasks, flushed, deb, hist>>
    /\ UNCHANGED calc

\* captureHandler runs to its end (radio.py:103-115): the URL is built from
\* sessionInfo["Path"] and capture["Path"], the file downloaded and transcribed,
\* and {"Captures": [capture]} published.  The tasks run in spawning order, as
\* download and transcription are synchronous calls.
CaptureDone ==
    /\ handler = "radio"
    /\ pubTasks # <<>>
    /\ LET t == Head(pubTasks) IN
       /\ t.sessionInfo # Absent
       /\ published' = Append(published,
              [channel |-> t.channel, payload |-> CapturePayload(t.capture),
               task |-> t.task])
    /\ pubTasks' = Tail(pubTasks)
    /\ UNCHANGED <<conn, store, persistTasks, flushed, deb, hist>>
    /\ UNCHANGED calc

\* captureHandler ends in its except branch (radio.py:117-118): sessionInfo is
\* None, or the download, the transcription or the publish raised.  The error
\* is printed and nothing is published.
CaptureFail ==
    /\ handler = "radio"
    /\ pubTasks # <<>>
    /\ pubTasks' = Tail(pubTasks)
    /\ UNCHANGED <<conn, store, persistTasks, published, flushed, deb, hist>>
    /\ UNCHANGED calc

\* -------------------------------------------------------------- Debouncer
\* timing.py:65: self.message = updateDictDelta(self.message, message)
\* An add_message that replaces the buffer instead of merging into it.
AddMergeReplace(msg, upd) == upd

AddMerge(msg, upd) == updateDictDelta(msg, upd)

\* timing.py:66-68: cancel the task referenced, if any, and reference a new
\* _delayed_publish task, which starts in asyncio.sleep(self.interval).
Restart(task) == [NoTask EXCEPT !.st = "sleep", !.rem = Interval]

\* The message timing.py:192-196 hands to add_message.
LapMessage(raceNumber, value) == Line(raceNumber, LLT(value))

\* delta.get("Lines", {})
LinesOf(delta) == IF "Lines" \in Keys(delta) THEN delta.v["Lines"] ELSE EmptyDict

\* timing.py:178-182: the LastLapTime popped from each entry that has one
lastLapTimeDelta(delta) ==
    LET lines == LinesOf(delta)
    IN [k \in {x \in Keys(lines) : "LastLapTime" \in Keys(lines.v[x])} |->
           lines.v[k].v["LastLapTime"]]

\* timing.py:185-190: the race numbers whose popped value is handed to
\* add_message (`if value is not None`: a null LastLapTime is popped and dropped).
Debounced(delta) ==
    LET llt == lastLapTimeDelta(delta) IN {k \in DOMAIN llt : llt[k] # Absent}

\* timing.py:179 and 201-206: the delta after the pops, with the entries left
\* empty filtered out of delta["Lines"] (the "Lines" key itself stays).
\* A remainder whose emptied entries are not filtered out.
RemainderUnfiltered(delta) ==
    IF "Lines" \notin Keys(delta) THEN delta
    ELSE LET lines == delta.v["Lines"]
             popped == D([k \in Keys(lines) |-> Pop(lines.v[k], "LastLapTime")])
         IN D([k \in Keys(delta) |-> IF k = "Lines" THEN popped ELSE delta.v[k]])

Remainder(delta) ==
    IF "Lines" \notin Keys(delta) THEN delta
    ELSE LET lines == delta.v["Lines"]
             popped == [k \in Keys(lines) |-> Pop(lines.v[k], "LastLapTime")]
             kept == D([k \in {x \in Keys(lines) : Truthy(popped[x])} |-> popped[k]])
         IN D([k \in Keys(delta) |-> IF k = "Lines" THEN kept ELSE delta.v[k]])

\* timing.py:164-212: get, merge, spawned set, LastLapTime extraction into the
\* debouncers (add_message has no suspension point, so it runs to its end
\* here), spawned publish of what is left.
TimingDelta ==
    /\ AtRecord
    /\ handler = "timing"
    /\ Head(pendM).H = "Streaming"
    /\ Channel # "Heartbeat"
    /\ LET delta == StripKf(handler, RawDelta)
           reference == MergeOnto(store[Channel], delta)
           llt == lastLapTimeDelta(delta)
           hit == Debounced(delta)
           rest == Remainder(delta)
           id(k) == narr + Cardinality({j \in hit : KeyRank(j) <= KeyRank(k)})
       IN /\ persistTasks' = persistTasks \cup
                 {[topic |-> Channel, value |-> reference]}
          /\ message' = [k \in Drivers |->
                 IF k \in hit THEN AddMerge(message[k], LapMessage(k, llt[k]))
                 ELSE message[k]]
          /\ debounce_task' = [k \in Drivers |->
                 IF k \in hit THEN Restart(debounce_task[k]) ELSE debounce_task[k]]
          /\ buf' = [k \in Drivers |->
                 IF k \in hit
                 THEN Append(buf[k], [id |-> id(k), upd |-> LapMessage(k, llt[k])])
                 ELSE buf[k]]
          /\ age' = [k \in Drivers |-> IF k \in hit THEN 0 ELSE age[k]]
          /\ narr' = narr + Cardinality(hit)
          /\ pubTasks' = IF Truthy(rest) THEN Append(pubTasks, Pub(Channel, rest))
                         ELSE pubTasks
          /\ Folded(Channel, RawDelta, delta)
    /\ RecordDone
    /\ UNCHANGED <<store, published, flushed, pubFailed>>
    /\ UNCHANGED calc

Sleeping == {k \in Drivers : debounce_task[k].st = "sleep"}

\* One time unit passes.  A sleep that has run out wakes before time moves on.
Tick ==
    /\ Sleeping # {}
    /\ \A k \in Sleeping : debounce_task[k].rem > 0
    /\ debounce_task' = [k \in Drivers |->
           IF k \in Sleeping THEN [debounce_task[k] EXCEPT !.rem = @ - 1]
           ELSE debounce_task[k]]
    /\ age' = [k \in Drivers |-> IF k \in Sleeping THEN age[k] + 1 ELSE age[k]]
    /\ UNCHANGED <<conn, store, tasks, message, pubFailed, buf, narr, hist>>
    /\ UNCHANGED calc

\* timing.py:73-74: the sleep is over; publish(channel, json.dumps(self.message))
\* serialises the buffer as it is now and the PUBLISH reaches the server; the
\* task awaits the reply.
TimerFire(k) ==
    /\ debounce_task[k].st = "sleep"
    /\ debounce_task[k].rem = 0
    /\ debounce_task' = [debounce_task EXCEPT ![k].st = "sent"]
    /\ flushed' = Append(flushed,
           [channel |-> "TimingDataF1", key |-> k, payload |-> message[k],
            upds |-> buf[k], at |-> age[k]])
    /\ UNCHANGED <<conn, store, persistTasks, pubTasks, published>>
    /\ UNCHANGED <<message, pubFailed, buf, narr, age, hist>>
    /\ UNCHANGED calc

\* timing.py:75-76: the reply is in; the task clears the reference and the buffer.
FlushDone(k) ==
    /\ debounce_task[k].st = "sent"
    /\ debounce_task' = [debounce_task EXCEPT ![k] = NoTask]
    /\ message' = [message EXCEPT ![k] = EmptyDict]
    /\ buf' = [buf EXCEPT ![k] = <<>>]
    /\ age' = [age EXCEPT ![k] = 0]
    /\ UNCHANGED <<conn, store, tasks, pubFailed, narr, hist>>
    /\ UNCHANGED calc

\* timing.py:74,77: publish raises, before the PUBLISH went out (the store is
\* unreachable) or before its reply came (the connection dropped).  Only
\* CancelledError is caught, so the task ends with lines 75-76 not run.
FlushFail(k) ==
    /\ \/ debounce_task[k].st = "sleep" /\ debounce_task[k].rem = 0
       \/ debounce_task[k].st = "sent"
    /\ nevents < MaxEvents
    /\ nevents' = nevents + 1
    /\ debounce_task' = [debounce_task EXCEPT ![k].st = "dead"]
    /\ pubFailed' = TRUE
    /\ UNCHANGED <<handler, RETRY, redis_client, pc, params, sock, subs, pendR, pendM, error>>
    /\ UNCHANGED <<store, tasks, message, buf, narr, age, hist>>
    /\ UNCHANGED calc

\* asyncio.run(...) (timing.py:231, tyre.py:171, pitlane.py:124): once the
\* connect loop has returned or raised, every task still pending is cancelled
\* and the process ends.
LoopExit ==
    /\ pc \in {"terminated", "crashed"}
    /\ pc' = "exited"
    /\ persistTasks' = {}
    /\ pubTasks' = <<>>
    /\ debounce_task' = [k \in Drivers |-> NoTask]
    /\ UNCHANGED <<handler, RETRY, redis_client, params, sock, subs, nevents, pendR, pendM, error>>
    /\ UNCHANGED <<store, published, flushed, message, pubFailed, buf, narr, age, hist>>
    /\ UNCHANGED calc

Next ==
    \/ \E outcome \in {"ok", "http_error", "no_token"} : Negotiate(outcome)
    \/ Backoff
    \/ \E ok \in BOOLEAN : Connect(ok)
    \/ TransportError
    \/ Cancel
    \/ \E f \in Frames(handler) : RecvFrame(f)
    \/ ProcessRef
    \/ SkipRecord
    \/ TyreDelta
    \/ PitLaneDelta
    \/ TimingDelta
    \/ TelemetryRef
    \/ TelemetryDelta
    \/ RadioDelta
    \/ \E t \in persistTasks : PersistTask(t)
    \/ PublishTask
    \/ CaptureDone
    \/ CaptureFail
    \/ Tick
    \/ \E k \in Drivers : TimerFire(k)
    \/ \E k \in Drivers : FlushDone(k)
    \/ \E k \in Drivers : FlushFail(k)
    \/ LoopExit

Spec == Init /\ [][Next]_vars

\* ------------------------------------------------- updateDictDelta by itself
\* Calls of updateDictDelta(obj, delta) on given values: utils.py:12-38 (the same
\* function is src/discord/utils.py:12-35).  Each call is made on the value the
\* previous call returned, as the handlers fold the deltas of a topic.
MaxMerges == 2

A == S(1)
B == S(2)
C == S(3)
X == S(9)

Bases ==
    { EmptyDict,
      D("a" :> A),
      D("a" :> A @@ "x" :> D("a" :> A @@ "b" :> B)),
      D("x" :> A),
      D("field" :> L(<<A, B, C>>)),
      D("a" :> A @@ "field" :> L(<<D("a" :> A), D("b" :> B)>>)),
      D("Lines" :> D("44" :> D("Gap" :> S(5)) @@ "1" :> D("Gap" :> S(7)))) }

Deltas ==
    { EmptyDict,
      D("a" :> C),
      D("a" :> B),
      D("x" :> D("a" :> C)),
      D("x" :> D("a" :> B)),
      D("b" :> B @@ "x" :> D("b" :> X)),
      D("x" :> S(5)),
      D("field" :> D("1" :> X)),
      D("field" :> D("0" :> D("a" :> C))),
      D("field" :> D("3" :> X)),
      D("field" :> D("x" :> X)),
      D("Lines" :> D("_deleted" :> L(<<S(44)>>) @@ "1" :> D("Gap" :> S(8)))) }

MergeInit ==
    /\ AtStart
    /\ handler = "tyre"
    /\ RETRY
    /\ applied = <<>>
    /\ \E base \in Bases : trail = <<base>>
    /\ lapIn = EmptyDict
    /\ lapOut = NoSplit
    /\ plain = EmptyDict
    /\ wire = Absent
    /\ decoded = Absent

Merge(delta) ==
    /\ Len(applied) < MaxMerges
    /\ applied' = Append(applied, delta)
    /\ trail' = Append(trail, updateDictDelta(trail[Len(trail)], delta))
    /\ UNCHANGED <<conn, store, tasks, deb, hist, lapIn, lapOut, plain, wire, decoded>>

MergeNext == \E delta \in Deltas : Merge(delta)

MergeSpec == MergeInit /\ [][MergeNext]_vars

\* ------------------------------------------- LastLapTime extraction by itself
\* The extraction of timing.py:176-212 applied to one delta: what goes to the
\* debounce buckets, what is left, and whether what is left is published.
\* An entry of delta["Lines"]: with or without a LastLapTime (an object or JSON
\* null), with or without another field.
LineEntries ==
    { EmptyDict,
      D("Gap" :> S(5)),
      LLT(D("Value" :> S(1))),
      D("LastLapTime" :> D("Value" :> S(2)) @@ "Gap" :> S(6)),
      LLT(Absent),
      D("LastLapTime" :> Absent @@ "Gap" :> S(7)) }

\* delta["Lines"]: each race number missing or with one of the entries.
LinesValues ==
    LET Choice == LineEntries \cup {Absent} IN
    { D([k \in {x \in Drivers : e[x] # Absent} |-> e[k]]) : e \in [Drivers -> Choice] }

TimingDeltas ==
    {EmptyDict, sA}
        \cup {D("Lines" :> l) : l \in LinesValues}
        \cup {D("Lines" :> l @@ "a" :> S(1)) : l \in LinesValues}

ExtractInit ==
    /\ AtStart
    /\ handler = "timing"
    /\ RETRY
    /\ applied = <<>>
    /\ trail = <<EmptyDict>>
    /\ lapIn \in TimingDeltas
    /\ lapOut = NoSplit
    /\ plain = EmptyDict
    /\ wire = Absent
    /\ decoded = Absent

Extract ==
    /\ ~lapOut.done
    /\ lapOut' = [done |-> TRUE,
                  adds |-> [k \in Debounced(lapIn) |->
                               LapMessage(k, lastLapTimeDelta(lapIn)[k])],
                  rest |-> Remainder(lapIn),
                  pub |-> Truthy(Remainder(lapIn))]
    /\ UNCHANGED <<conn, store, tasks, deb, hist, applied, trail, lapIn>>
    /\ UNCHANGED <<plain, wire, decoded>>

ExtractNext == Extract

ExtractSpec == ExtractInit /\ [][ExtractNext]_vars

\* ------------------------------------------------- the compression by itself
\* A value is encoded as the feed encodes it and the payload is handed to
\* decompress (telemetry.py:131-133).
PlainLeaves == {S(0), S(7), S(12), S(305), Absent, EmptyDict, L(<<>>)}

PlainValues ==
    PlainLeaves
        \cup {D("a" :> x) : x \in PlainLeaves}
        \cup {D("_kf" :> x @@ "b" :> y) : x \in {S(1)}, y \in PlainLeaves}
        \cup {L(<<x, y>>) : x \in PlainLeaves, y \in {S(3), EmptyDict, L(<<S(1)>>)}}
        \cup {D("x" :> D("0" :> x @@ "1" :> L(<<y>>))) :
                  x \in {S(10), Absent}, y \in {S(99), D("a" :> S(1))}}

CodecInit ==
    /\ AtStart
    /\ handler = "telemetry"
    /\ RETRY
    /\ applied = <<>>
    /\ trail = <<EmptyDict>>
    /\ lapIn = EmptyDict
    /\ lapOut = NoSplit
    /\ plain \in PlainValues
    /\ wire = Absent
    /\ decoded = Absent

Encode ==
    /\ wire = Absent
    /\ wire' = Z(plain)
    /\ UNCHANGED <<conn, store, tasks, deb, hist, applied, trail, lapIn, lapOut>>
    /\ UNCHANGED <<plain, decoded>>

Decode ==
    /\ wire # Absent
    /\ decoded = Absent
    /\ decoded' = [value |-> decompress(wire)]
    /\ UNCHANGED <<conn, store, tasks, deb, hist, applied, trail, lapIn, lapOut>>
    /\ UNCHANGED <<plain, wire>>

CodecNext == Encode \/ Decode

CodecSpec == CodecInit /\ [][CodecNext]_vars

\* ================================================================== claims
Running == pc \notin {"terminated", "crashed", "exited"}

C2_LastWriteWins ==
    (handler \in {"timing", "pitlane"} /\ pc # "exited" /\ persistTasks = {}) =>
        \A t \in Topics(handler) :
            (canon[t] # Absent /\ refSnap[t] = Absent) => store[t] = canon[t]

\* C10: after a Reference frame for T has been processed, the stored state of T
\* is the snapshot the frame set, until a Delta for T received after it is merged.
C10_SnapshotStays ==
    \A t \in AllTopics : refSnap[t] # Absent => store[t] = refSnap[t]

\* The merge, in arrival order, of a sequence of add_message calls.
RECURSIVE FoldUpd(_)
FoldUpd(q) ==
    IF q = <<>> THEN EmptyDict
    ELSE updateDictDelta(FoldUpd(SubSeq(q, 1, Len(q) - 1)), q[Len(q)].upd)

Ids(q) == {q[i].id : i \in DOMAIN q}

\* The add_message calls of flush i that no earlier flush of its bucket held.
SincePrevious(i) ==
    LET prev == UNION {Ids(flushed[j].upds) :
                         j \in {x \in 1..(i - 1) : flushed[x].key = flushed[i].key}}
    IN SelectSeq(flushed[i].upds, LAMBDA e : e.id \notin prev)

\* The last flush published for bucket k.
LastFlush(k) ==
    flushed[CHOOSE i \in DOMAIN flushed :
              /\ flushed[i].key = k
              /\ \A j \in DOMAIN flushed : flushed[j].key = k => j <= i]

\* C3: when add_message arrives for a bucket whose flush is executing (publish
\* in flight), the flush is not cancelled and the update goes into a fresh
\* buffer that holds nothing of what is being flushed.
C3_RaceRule ==
    [][\A k \in Drivers :
         (debounce_task[k].st = "sent" /\ Len(buf'[k]) > Len(buf[k])) =>
             /\ debounce_task'[k].st = "sent"
             /\ message'[k] = buf'[k][Len(buf'[k])].upd]_vars

\* C4: every debounced flush goes out one window after the last arrival of its
\* bucket and its payload is the merge, in arrival order, of exactly the
\* arrivals since the previous flush of that bucket (an arrival after a flush
\* starts a buffer of its own).
C4_TrailingDebounce ==
    \A i \in DOMAIN flushed :
        /\ flushed[i].at = Interval
        /\ flushed[i].payload = FoldUpd(SincePrevious(i))

\* C5: while the handler runs, a bucket with a non-empty pending buffer has
\* exactly one outstanding timer task (sleeping, or executing its flush).
C5_OneTimer ==
    pc # "exited" =>
        \A k \in Drivers :
            message[k] # EmptyDict => debounce_task[k].st \in {"sleep", "sent"}

\* C6: no add_message call is contained in the payload of two published flushes.
C6_PublishedOnce ==
    \A i, j \in DOMAIN flushed :
        i < j => Ids(flushed[i].upds) \cap Ids(flushed[j].upds) = {}

BufferKept ==
    \A k \in Drivers :
        /\ message[k] = FoldUpd(buf[k])
        /\ debounce_task[k].st = "sent" =>
               /\ LastFlush(k).upds = buf[k]
               /\ LastFlush(k).payload = message[k]

ArrivalsStopped == nevents = MaxEvents /\ pendM = <<>>

FairSpec ==
    /\ Spec
    /\ WF_vars(Tick)
    /\ \A k \in Drivers : WF_vars(TimerFire(k)) /\ WF_vars(FlushDone(k))

\* C8: a transport error on the open socket is handled by the retry policy.
\* With retry enabled the handler goes back to negotiate (after the back-off
\* where there is one), frames are only ever received on a socket opened with a
\* fresh token and on which Subscribe was sent, and the terminal state is never
\* reached; with retry disabled the loop terminates and handles no further frame.
\* (A cancellation of the task during the back-off sleep is not a transport
\* error and is left out.)
C8_TransportRetry ==
    /\ [](pc \in {"recv", "frame"} => sock = "open" /\ subs = 1 /\ params = "token")
    /\ [](RETRY => pc # "terminated")
    /\ [][(sock = "open" /\ sock' = "closed" /\ error' = "ConnectionClosed") =>
             IF RETRY THEN pc' \in {"backoff", "negotiate"}
                      ELSE pc' = "terminated"]_vars
    /\ [][(pc = "backoff" /\ ~Cancel) => pc' \in {"backoff", "negotiate"}]_vars
    /\ [][(pc' = "recv" /\ pc \notin {"recv", "frame"}) =>
             (pc = "connect" /\ params = "token" /\ sock' = "open" /\ subs' = 1)]_vars
    /\ [][(pc \in {"terminated", "exited"}) =>
             (pc' \in {"terminated", "exited"} /\ sock' = "closed"
              /\ pendR' = <<>> /\ pendM' = <<>>)]_vars

\* C8 witness: with retry enabled, after a frame was stored and the transport
\* failed, the handler is receiving again on a new subscribed socket.
C8_Witness ==
    /\ RETRY
    /\ error = "ConnectionClosed"
    /\ pc = "recv" /\ sock = "open" /\ subs = 1 /\ params = "token"
    /\ \E t \in AllTopics : store[t] # Absent

\* C9: a failed handshake (HTTP error or no token in the reply) is handled by
\* the retry policy in every handler, never escapes the connect loop, and no
\* connect is attempted without a token.
C9_HandshakeFailureHandled ==
    /\ [](pc = "connect" => params = "token")
    /\ [][(pc = "negotiate" /\ params' = "none") =>
             IF RETRY THEN pc' \in {"backoff", "negotiate"}
                      ELSE pc' = "terminated"]_vars

\* C11: in every handler, the step that handles a Delta record whose topic is
\* Heartbeat, or whose hub is not Streaming, merges nothing, writes nothing to
\* the store, publishes nothing, and leaves the read loop on the same
\* connection at the next record.
C11_HeartbeatIgnored ==
    [][(/\ AtRecord
        /\ Channel = "Heartbeat" \/ Head(pendM).H # "Streaming"
        /\ pendM' # pendM) =>
           (/\ store' = store
            /\ persistTasks' = persistTasks
            /\ pubTasks' = pubTasks
            /\ sock' = "open"
            /\ pendM' = Tail(pendM)
            /\ pc' \in {"recv", "frame"})]_vars

\* C12: in every handler, receiving a frame with neither R nor M (the empty
\* keep-alive object) writes nothing, publishes nothing, and leaves the read
\* loop receiving on the same connection.
C12_OtherFrameIgnored ==
    [][RecvFrame(EmptyFrame) =>
           (/\ store' = store
            /\ persistTasks' = persistTasks
            /\ pubTasks' = pubTasks
            /\ sock' = "open" /\ subs' = subs
            /\ pc' = "recv")]_vars

\* C13: in the telemetry handler, once a Delta record is processed the topic's
\* stored state is merge(previous state, decompressed delta): the store holds
\* the fold of the decompressed deltas, not the last delta alone.
C13_TelemetryMerged ==
    handler = "telemetry" =>
        \A t \in {StoreKey(x) : x \in Topics("telemetry")} :
            canon[t] # Absent => store[t] = canon[t]

\* The calls made so far: call j took trail[j] and applied[j] and returned trail[j+1].
Calls == DOMAIN applied

\* The zero-based string index that names the i-th element of a sequence.
IndexName == <<"0", "1", "2", "3", "4", "5", "6", "7">>

\* The string indices of a list: "0" .. str(n-1).
Indices(lst) == {IndexName[i] : i \in 1..Len(lst.v)}

\* What C14 asks of one patched element: the delta's entry itself or, for two
\* maps, their union with the delta's scalar leaves on top.
PatchedElem(b, d, o) ==
    IF IsDict(b) /\ IsDict(d)
    THEN /\ Keys(o) = Keys(b) \cup Keys(d)
         /\ \A k \in Keys(b) \ Keys(d) : o.v[k] = b.v[k]
         /\ \A k \in Keys(d) : ~IsDict(d.v[k]) => o.v[k] = d.v[k]
    ELSE o = d

\* C14: when base[k] is a list of length n and delta[k] a map whose keys are
\* string indices below n, the result's [k] is a list of length n whose
\* elements named by the delta are replaced by (for two maps, merged with) the
\* delta's entry and whose other elements are unchanged in place.
C14_IndexPatch ==
    \A j \in Calls : \A k \in Keys(trail[j]) \cap Keys(applied[j]) :
        LET b == trail[j].v[k]
            d == applied[j].v[k]
            o == trail[j + 1].v[k]
        IN (IsList(b) /\ IsDict(d) /\ Keys(d) \subseteq Indices(b)) =>
               /\ IsList(o)
               /\ Len(o.v) = Len(b.v)
               /\ \A i \in 1..Len(b.v) :
                    IF IndexName[i] \in Keys(d)
                    THEN PatchedElem(b.v[i], d.v[IndexName[i]], o.v[i])
                    ELSE o.v[i] = b.v[i]

\* C14 witness: base.field = [A,B,C] patched with {field: {"1": X}} gave [A,X,C].
C14_Witness ==
    /\ trail = << D("field" :> L(<<A, B, C>>)), D("field" :> L(<<A, X, C>>)) >>
    /\ applied = << D("field" :> D("1" :> X)) >>

\* The collection key that an id listed under the deletion marker names.
IdKey(n) == IF n = 44 THEN "44" ELSE "1"

\* The ids a delta lists under the reserved deletion marker.
Deleted(d) ==
    IF IsDict(d) /\ "_deleted" \in Keys(d) /\ IsList(d.v["_deleted"])
    THEN {IdKey(d.v["_deleted"].v[i].v) : i \in 1..Len(d.v["_deleted"].v)}
    ELSE {}

\* C15: when base[k] is a collection keyed by id and delta[k] lists ids under
\* the deletion marker, the result's collection holds none of the listed ids,
\* and the updates the same delta carries for the other ids are applied.
C15_DeletionMarker ==
    \A j \in Calls : \A k \in Keys(trail[j]) \cap Keys(applied[j]) :
        LET b == trail[j].v[k]
            d == applied[j].v[k]
            o == trail[j + 1].v[k]
        IN (IsDict(b) /\ Deleted(d) # {}) =>
               /\ IsDict(o)
               /\ Keys(o) \cap Deleted(d) = {}
               /\ \A id \in Keys(d) \ ({"_deleted"} \cup Deleted(d)) :
                    /\ id \in Keys(o)
                    /\ \A leaf \in Keys(d.v[id]) : o.v[id].v[leaf] = d.v[id].v[leaf]

\* The keys of the input alphabet that are non-negative integer strings.
IntegerKeys == {"0", "1", "2", "3", "44"}

\* C16: when base[k] is a list and delta[k] a map, the result's [k] is a list
\* (index-addressed patch) only if every key of delta[k] is a non-negative
\* integer string; with any other key the result's [k] equals delta[k].
C16_AllIntegerKeys ==
    \A j \in Calls : \A k \in Keys(trail[j]) \cap Keys(applied[j]) :
        LET b == trail[j].v[k]
            d == applied[j].v[k]
            o == trail[j + 1].v[k]
        IN (IsList(b) /\ IsDict(d)) =>
               IF Keys(d) \subseteq IntegerKeys THEN IsList(o) ELSE o = d

\* C17: a call with the empty delta returns its base unchanged.
C17_EmptyDelta ==
    \A j \in Calls : applied[j] = EmptyDict => trail[j + 1] = trail[j]

\* C17 witness: the empty delta was merged into a base holding a map, a list
\* and a scalar.
C17_Witness ==
    /\ applied = <<EmptyDict>>
    /\ Len(trail) = 2
    /\ trail[2] = D("a" :> A @@ "field" :> L(<<D("a" :> A), D("b" :> B)>>))

\* A delta whose leaves are scalars reached only through maps.
RECURSIVE ScalarLeaves(_)
ScalarLeaves(d) ==
    /\ IsDict(d)
    /\ \A k \in Keys(d) : d.v[k].t = "s" \/ ScalarLeaves(d.v[k])

\* No map of the delta meets a list of the base as an index-addressed patch
\* (a map whose keys are all integer strings).
RECURSIVE NoIndexPatch(_, _)
NoIndexPatch(b, d) ==
    \A k \in Keys(b) \cap Keys(d) :
        /\ ~(IsList(b.v[k]) /\ IsDict(d.v[k]) /\ Keys(d.v[k]) \subseteq IntegerKeys)
        /\ (IsDict(b.v[k]) /\ IsDict(d.v[k])) => NoIndexPatch(b.v[k], d.v[k])

\* C18: applying twice a delta whose leaves are scalars reached only through
\* maps (no index-addressed patch, no deletion marker) gives the state that
\* applying it once gave.
C18_Idempotent ==
    \A j \in Calls :
        (/\ j + 1 \in Calls
         /\ applied[j + 1] = applied[j]
         /\ ScalarLeaves(applied[j])
         /\ NoIndexPatch(trail[j], applied[j])) => trail[j + 2] = trail[j + 1]

\* Every key of b that d does not name is in o with b's value, at this level
\* and at every level the merge recurses into (map into map, and the elements
\* of a list patched by a map).
RECURSIVE Preserved(_, _, _)
Preserved(b, d, o) ==
    \A k \in Keys(b) :
        /\ k \in Keys(o)
        /\ IF k \notin Keys(d) THEN o.v[k] = b.v[k]
           ELSE IF IsDict(b.v[k]) /\ IsDict(d.v[k])
                THEN IsDict(o.v[k]) /\ Preserved(b.v[k], d.v[k], o.v[k])
           ELSE IF IsList(b.v[k]) /\ IsDict(d.v[k])
                THEN /\ IsList(o.v[k])
                     /\ Len(o.v[k].v) >= Len(b.v[k].v)
                     /\ \A i \in 1..Len(b.v[k].v) :
                          LET e == b.v[k].v[i] IN
                          IF IndexName[i] \notin Keys(d.v[k])
                          THEN o.v[k].v[i] = e
                          ELSE (IsDict(e) /\ IsDict(d.v[k].v[IndexName[i]])) =>
                                   Preserved(e, d.v[k].v[IndexName[i]], o.v[k].v[i])
           ELSE TRUE

\* C19: no call drops a key present only in its base: such a key is in the
\* result with its value unchanged, at the top level and at every nesting
\* level reached by recursion.
C19_NoKeyDropped ==
    \A j \in Calls : Preserved(trail[j], applied[j], trail[j + 1])

\* C19 witness: {a, x:{a,b}} merged with {x:{a:3}} kept a and x.b.
C19_Witness ==
    /\ applied = << D("x" :> D("a" :> C)) >>
    /\ trail = << D("a" :> A @@ "x" :> D("a" :> A @@ "b" :> B)),
                  D("a" :> A @@ "x" :> D("a" :> C @@ "b" :> B)) >>

\* At every leaf that d1 and d2 both set, to different scalars, o holds d2's.
RECURSIVE LaterWins(_, _, _)
LaterWins(d1, d2, o) ==
    \A k \in Keys(d1) \cap Keys(d2) :
        IF d1.v[k].t = "s" /\ d2.v[k].t = "s" /\ d1.v[k] # d2.v[k]
        THEN k \in Keys(o) /\ o.v[k] = d2.v[k]
        ELSE (IsDict(d1.v[k]) /\ IsDict(d2.v[k]) /\ k \in Keys(o) /\ IsDict(o.v[k])) =>
                 LaterWins(d1.v[k], d2.v[k], o.v[k])

\* C20: merge is not commutative, the later delta wins: after d1 then d2, every
\* leaf both set to different values holds d2's value (so d2 then d1 holds d1's).
C20_LaterWins ==
    \A j \in Calls :
        j + 1 \in Calls => LaterWins(applied[j], applied[j + 1], trail[j + 2])

\* C20 witness: on base {a:1, x:{a:1,b:2}}, {x:{a:3}} then {x:{a:2}} left x.a = 2.
C20_Witness ==
    /\ applied = << D("x" :> D("a" :> C)), D("x" :> D("a" :> B)) >>
    /\ trail[1] = D("a" :> A @@ "x" :> D("a" :> A @@ "b" :> B))
    /\ trail[3] = D("a" :> A @@ "x" :> D("a" :> B @@ "b" :> B))


\* --------------------------------------------------------------- C21 .. C30
\* C21: a frame is applied as a whole.  When the handling of a frame ends in a
\* failure or in the cancellation of the read loop, no entry of that frame has
\* been written to the store or published (or handed to a spawned write or
\* publish) before.
C21_FrameAtomic ==
    [][(pc = "frame" /\ pc' \notin {"frame", "recv"}) => nrec = 0]_vars

\* The handlers that merge a delta onto the stored value of its topic.
Merging == {"timing", "tyre", "pitlane", "radio"}

\* A step of the read loop that handles the record at the head of the frame.
RecordStep == AtRecord /\ pendM' # pendM

\* C22: in the merging handlers, the handling of a delta record either writes
\* nothing (the record is skipped, or the merge raised and the except branch was
\* taken) or writes, directly or through a spawned task, exactly the value the
\* completed merge of the delta onto the value read for the topic returns; no
\* other topic is written.
C22_MergeThenWrite ==
    [][(RecordStep /\ handler \in Merging) =>
         LET read == store[Channel]
             delta == StripKf(handler, RawDelta)
             whole == [topic |-> Channel,
                       value |-> updateDictDelta(IF read = Absent THEN EmptyDict
                                                 ELSE read, delta)]
         IN \/ store' = store /\ persistTasks' = persistTasks
            \/ /\ pc' \in {"frame", "recv"}
               /\ read = Absent => handler # "pitlane"
               /\ \/ /\ store' = [store EXCEPT ![Channel] = whole.value]
                     /\ persistTasks' = persistTasks
                  \/ /\ store' = store
                     /\ persistTasks' = persistTasks \cup {whole}]_vars

\* C22 witness: the pit-lane handler has written a completed merge for one
\* topic, and a later merge that raised has left the store as it was.
C22_Witness ==
    /\ handler = "pitlane"
    /\ error = "TypeError"
    /\ persistTasks = {}
    /\ store["PitLaneTimeCollection"] = Absent
    /\ store["PitStop"] = D("a" :> S(1) @@ "b" :> S(2))

\* The read loop is suspended in an awaited store call of the frame it holds:
\* the set of a snapshot entry, or the get (and set) of a delta record.
StoreCallOutstanding ==
    /\ pc = "frame"
    /\ \/ pendR # <<>>
       \/ /\ AtRecord
          /\ Head(pendM).H = "Streaming"
          /\ handler \in {"pitlane", "telemetry"} \/ Channel # "Heartbeat"

\* C23: while a store call of an already received frame is outstanding, the read
\* loop can take the next frame from the socket.
C23_ReadsNotBlocked ==
    StoreCallOutstanding => ENABLED (\E f \in Frames(handler) : RecvFrame(f))

\* The entries of the publish log and the pending capture tasks, as Task ids.
PublishedTasks == {published[i].task : i \in DOMAIN published}
PendingTasks == {pubTasks[i].task : i \in DOMAIN pubTasks}

\* A published payload holds one capture, with its transcript.
OneTranscribed(payload) ==
    /\ Keys(payload) = {"Captures"}
    /\ IsList(payload.v["Captures"])
    /\ Len(payload.v["Captures"].v) = 1
    /\ "Message" \in Keys(payload.v["Captures"].v[1])

\* C24 (state part): in the radio handler no capture task is published twice or
\* published and still pending, and every published payload holds exactly one
\* capture with its transcript.
C24_PublishedOnce ==
    handler = "radio" =>
        /\ Cardinality(PublishedTasks) = Len(published)
        /\ Cardinality(PendingTasks) = Len(pubTasks)
        /\ PublishedTasks \cap PendingTasks = {}
        /\ \A i \in DOMAIN published :
               /\ published[i].channel = "TeamRadio"
               /\ OneTranscribed(published[i].payload)

\* C24 (step part): a handled TeamRadio delta spawns one task per capture it
\* names; a capture task that ends without its publish removes that task only:
\* the read loop, the socket, the store, the publish log and every other
\* pending capture task are as before; any other removal of a pending task is
\* its own publish, appended to the log once.
C24_StepIsolated ==
    /\ (handler = "radio" /\ RecordStep /\ pc' \in {"frame", "recv"}
          /\ Head(pendM).H = "Streaming" /\ Channel # "Heartbeat")
       => /\ Len(pubTasks') = Len(pubTasks) + Len(CapturesOf(RawDelta))
          /\ published' = published
    /\ (handler = "radio" /\ Len(pubTasks') < Len(pubTasks) /\ pc' # "exited")
       => /\ pubTasks' = Tail(pubTasks)
          /\ UNCHANGED <<conn, store>>
          /\ \/ published' = published
             \/ /\ Len(published') = Len(published) + 1
                /\ published'[Len(published')].task = Head(pubTasks).task
                /\ published'[Len(published')].payload.v["Captures"].v[1] =
                       D(Head(pubTasks).capture.v @@ ("Message" :> S(9)))

\* C24: failure isolation of the capture enrichment.
C24_CaptureIsolated == []C24_PublishedOnce /\ [][C24_StepIsolated]_vars

\* C24 witness: of the two captures of one delta the first was dropped and the
\* second published, and the read loop is still receiving on the same socket.
C24_Witness ==
    /\ handler = "radio"
    /\ pc = "recv"
    /\ error = "none"
    /\ pubTasks = <<>>
    /\ store["TeamRadio"] = rTwo
    /\ Len(published) = 1
    /\ published[1].payload = CapturePayload(Capture(5))

\* The entries of delta["Lines"] (none when the delta has no "Lines").
GivenLines == IF "Lines" \in Keys(lapIn) THEN lapIn.v["Lines"].v ELSE <<>>
RestLines == IF "Lines" \in Keys(lapOut.rest) THEN lapOut.rest.v["Lines"].v ELSE <<>>

\* The race numbers whose entry carries a LastLapTime leaf.
WithLap == {k \in DOMAIN GivenLines : "LastLapTime" \in Keys(GivenLines[k])}

\* What is left of the delta: the top-level keys are those of the delta and all
\* but "Lines" keep their value; no entry holds a LastLapTime leaf, none is
\* empty, and every other leaf of every entry is there unchanged.
RemainderAsStated ==
    /\ Keys(lapOut.rest) = Keys(lapIn)
    /\ \A f \in Keys(lapIn) \ {"Lines"} : lapOut.rest.v[f] = lapIn.v[f]
    /\ DOMAIN RestLines \subseteq DOMAIN GivenLines
    /\ \A k \in DOMAIN RestLines :
           /\ "LastLapTime" \notin Keys(RestLines[k])
           /\ Keys(RestLines[k]) # {}
    /\ \A k \in DOMAIN GivenLines : \A f \in Keys(GivenLines[k]) \ {"LastLapTime"} :
           /\ k \in DOMAIN RestLines
           /\ f \in Keys(RestLines[k])
           /\ RestLines[k].v[f] = GivenLines[k].v[f]
    /\ \A k \in DOMAIN RestLines : Keys(RestLines[k]) \subseteq Keys(GivenLines[k])

\* C25 as stated: every LastLapTime leaf of the delta is added to the debounce
\* bucket of its race number, and what is left is as described.
C25_EveryLeafDebounced ==
    lapOut.done =>
        /\ DOMAIN lapOut.adds = WithLap
        /\ \A k \in DOMAIN lapOut.adds :
               lapOut.adds[k] = Line(k, LLT(GivenLines[k].v["LastLapTime"]))
        /\ RemainderAsStated

\* C25 as amended: every LastLapTime leaf is removed from the delta; the leaves
\* that are not null are added to the debounce bucket of their race number, a
\* null leaf is added to none; what is left is as described.
C25_NonNullDebounced ==
    lapOut.done =>
        /\ DOMAIN lapOut.adds =
               {k \in WithLap : GivenLines[k].v["LastLapTime"] # Absent}
        /\ \A k \in DOMAIN lapOut.adds :
               lapOut.adds[k] = Line(k, LLT(GivenLines[k].v["LastLapTime"]))
        /\ RemainderAsStated

\* C25 witness: one entry gave its LastLapTime to its bucket and kept its other
\* field, the other entry held a LastLapTime only and is gone from what is left.
C25_Witness ==
    /\ lapOut.done
    /\ lapIn = D("Lines" :> D("44" :> D("LastLapTime" :> D("Value" :> S(2)) @@ "Gap" :> S(6))
                              @@ "1" :> LLT(D("Value" :> S(1)))))
    /\ DOMAIN lapOut.adds = {"44", "1"}
    /\ lapOut.rest = Line("44", D("Gap" :> S(6)))

\* C26: in the tyre and pit-lane handlers the handling of every Streaming
\* record other than Heartbeat (the read loop not being cancelled meanwhile)
\* spawns exactly one publish, on the channel named after the topic, whose
\* payload is the partial update as received.
C26_DeltaPublishedVerbatim ==
    [][(handler \in {"tyre", "pitlane"} /\ RecordStep /\ ~Cancel
          /\ Head(pendM).H = "Streaming" /\ Channel # "Heartbeat")
       => pubTasks' = Append(pubTasks, Pub(Channel, RawDelta))]_vars

\* C27 (state part): an open socket has had exactly one Subscribe sent on it,
\* a closed one none.
C27_SubscribedWhileOpen ==
    /\ sock = "open" => subs = 1
    /\ sock = "closed" => subs = 0

\* C27 (step part): a Subscribe is sent only in the step that opens the socket,
\* after a negotiate that returned a token and with no frame of that connection
\* received yet; a frame is received only on a socket with its Subscribe sent,
\* and receiving sends no further Subscribe.
C27_SubscribeStep ==
    /\ (subs' # subs /\ subs' # 0)
       => /\ subs = 0 /\ subs' = 1
          /\ pc = "connect" /\ params = "token"
          /\ sock = "closed" /\ sock' = "open"
          /\ pc' = "recv" /\ pendR' = <<>> /\ pendM' = <<>>
          /\ nevents' = nevents
    /\ (pc = "recv" /\ nevents' # nevents)
       => subs = 1 /\ subs' \in {0, 1}

\* C27: one Subscribe per connection, between the opening of the socket and
\* the first frame.
C27_OneSubscribe == []C27_SubscribedWhileOpen /\ [][C27_SubscribeStep]_vars

\* C27 witness: after a failed connection attempt the handler reads a frame on
\* a later connection, on which one Subscribe was sent.
C27_Witness ==
    /\ error = "connect"
    /\ sock = "open" /\ subs = 1
    /\ pc = "frame"

\* C28: with retry disabled, a handler whose connect loop has been left after a
\* failed negotiation or a socket failure has closed its store connection.
C28_StoreClosedOnExit ==
    (~RETRY /\ pc \in {"terminated", "exited"}) => redis_client = "closed"

\* C29: when the read loop is cancelled the session is torn down whatever the
\* retry setting: the cancellation leaves the connect loop ended, so that no
\* negotiate, connect, Subscribe or frame handling follows it.
C29_CancelTearsDown ==
    [][Cancel => (pc' \in {"terminated", "crashed"} /\ sock' = "closed")]_vars

\* C30: a frame that cannot be parsed ends the receive loop of the current
\* connection: the socket is closed with nothing written to the store and
\* nothing published or spawned for that frame; with retry enabled the handler
\* goes on to a new negotiate (after the back-off where there is one), with
\* retry disabled its connect loop ends.  A handler reads again only on a newly
\* negotiated socket with its Subscribe sent.
C30_MalformedFrame ==
    /\ [][RecvFrame(Malformed) =>
            /\ store' = store
            /\ UNCHANGED <<tasks, deb>>
            /\ sock = "open" /\ sock' = "closed" /\ subs' = 0
            /\ pendR' = <<>> /\ pendM' = <<>>
            /\ pc' = IF ~RETRY THEN "terminated"
                     ELSE IF handler = "pitlane" THEN "negotiate" ELSE "backoff"]_vars
    /\ [][(pc = "backoff") => (pc' \in {"backoff", "negotiate", "crashed"})]_vars
    /\ [][(sock = "closed" /\ sock' = "open") =>
            (pc = "connect" /\ params = "token" /\ subs' = 1)]_vars

\* C30 witness: after an unparseable frame the handler, with retry enabled, is
\* receiving again on a new subscribed socket.
C30_Witness ==
    /\ RETRY
    /\ error = "JSONDecodeError"
    /\ pc = "recv" /\ sock = "open" /\ subs = 1
    /\ nevents >= 2

\* --------------------------------------------------------------- C31 .. C40
\* The store key (and channel) of the frame entry the read loop is at.
CurrentKey ==
    IF pendR # <<>> THEN StoreKey(Head(pendR)[1])
    ELSE IF pendM # <<>> THEN StoreKey(Channel)
    ELSE "none"

\* C31: handling a snapshot or a delta record of topic T changes, spawns a
\* write for and spawns a publish on T's key only; a spawned write that lands
\* changes the key it was spawned for and no other.  The stored value of every
\* other topic is the same before and after the step.
C31_TopicIndependent ==
    [][/\ \A t \in AllTopics :
            store'[t] # store[t] =>
               \/ /\ pc = "frame"
                  /\ t = CurrentKey
                  /\ pendR' # pendR \/ pendM' # pendM
               \/ \E task \in persistTasks \ persistTasks' :
                      task.topic = t /\ store'[t] = task.value
       /\ \A task \in persistTasks' \ persistTasks :
            pc = "frame" /\ task.topic = CurrentKey
       /\ Len(pubTasks') > Len(pubTasks) =>
            /\ pc = "frame"
            /\ \A i \in (Len(pubTasks) + 1)..Len(pubTasks') :
                   pubTasks'[i].channel = CurrentKey]_vars

\* C31 witness: the pit-lane handler has merged a delta into each of two
\* topics and both spawned writes have landed.
C31_Witness ==
    /\ handler = "pitlane"
    /\ persistTasks = {}
    /\ store["PitStop"] = D("a" :> S(1) @@ "b" :> S(2))
    /\ store["PitLaneTimeCollection"] = D("a" :> S(1) @@ "b" :> S(2))

\* C32: decoding a payload (base64-decode, inflate without header, parse)
\* gives exactly the value that was encoded into it.
C32_RoundTrip ==
    decoded # Absent => decoded.value = plain

\* C32 witness: a nested value with a dict inside a list inside a dict has
\* been encoded and decoded.
C32_Witness ==
    /\ decoded # Absent
    /\ plain = D("x" :> D("0" :> S(10) @@ "1" :> L(<<D("a" :> S(1))>>)))
    /\ Len(wire.v) > 40

\* C33: with retry enabled, a failed negotiation or a transport error that the
\* connect loop handles takes the loop to the back-off sleep, not straight to
\* the next negotiate().
C33_BackoffBeforeNegotiate ==
    [][(RETRY /\ pc' # "crashed"
          /\ (TransportError \/ Negotiate("http_error") \/ Negotiate("no_token")))
       => pc' = "backoff"]_vars

\* C34: in the merging handlers a delta record for a topic with no stored
\* value is merged onto an empty map: the value written (or handed to the
\* spawned write) is the delta, the tyre and pit-lane handlers publish the
\* delta, and the connection is kept with no error noted.
C34_AbsentTopicMerged ==
    [][(handler \in Merging /\ RecordStep /\ ~Cancel
          /\ Head(pendM).H = "Streaming"
          /\ (handler = "pitlane" \/ Channel # "Heartbeat")
          /\ store[Channel] = Absent)
       => LET delta == StripKf(handler, RawDelta) IN
          /\ sock' = "open" /\ error' = error /\ pc' \in {"frame", "recv"}
          /\ \/ store'[Channel] = delta
             \/ [topic |-> Channel, value |-> delta] \in persistTasks'
          /\ handler \in {"tyre", "pitlane"} =>
                 pubTasks' = Append(pubTasks, Pub(Channel, delta))]_vars

\* C35: when a frame carries a snapshot of a topic and then a delta record
\* for the same topic, the delta is merged onto that snapshot: the value
\* written (or handed to the spawned write) is merge(snapshot, delta).
C35_SnapshotBeforeDelta ==
    [][(handler \in Merging /\ RecordStep /\ ~Cancel
          /\ Head(pendM).H = "Streaming"
          /\ nrec > 0 /\ refSnap[Channel] # Absent)
       => LET merged == updateDictDelta(refSnap[Channel], StripKf(handler, RawDelta)) IN
          \/ store'[Channel] = merged
          \/ [topic |-> Channel, value |-> merged] \in persistTasks']_vars

\* What C36 asks of one index-addressed merge of the map d onto the list b
\* giving o: the originals stay where they were (patched in place where d
\* names them) and every entry of d that names no element of b is a new
\* element after them.
Appended(b, d, o) ==
    LET out == Keys(d) \ Indices(b) IN
    /\ IsList(o)
    /\ Len(o.v) = Len(b.v) + Cardinality(out)
    /\ \A i \in 1..Len(b.v) :
         IF IndexName[i] \in Keys(d)
         THEN PatchedElem(b.v[i], d.v[IndexName[i]], o.v[i])
         ELSE o.v[i] = b.v[i]
    /\ \A i \in (Len(b.v) + 1)..Len(o.v) : \E key \in out : o.v[i] = d.v[key]

\* C36 as stated: after an index-addressed merge the originals keep their
\* positions, an entry whose index is not below the length is appended after
\* them, and applying the same out-of-bounds patch again appends again.
C36_ReapplyAppends ==
    \A j \in Calls : \A k \in Keys(trail[j]) \cap Keys(applied[j]) :
        LET b == trail[j].v[k]
            d == applied[j].v[k]
            o == trail[j + 1].v[k]
        IN (IsList(b) /\ IsDict(d)) =>
               /\ Appended(b, d, o)
               /\ (j + 1 \in Calls /\ applied[j + 1] = applied[j]
                     /\ Keys(d) \ Indices(b) # {})
                  => Len(trail[j + 2].v[k].v) > Len(o.v)

\* C36 amended: the originals keep their positions and the out-of-bounds
\* entries are appended after them; applying the same patch again appends
\* again exactly when one of its keys still names no element of the longer
\* list (an entry at index = length has become an in-place patch).
C36_AppendsWhileOutOfBounds ==
    \A j \in Calls : \A k \in Keys(trail[j]) \cap Keys(applied[j]) :
        LET b == trail[j].v[k]
            d == applied[j].v[k]
            o == trail[j + 1].v[k]
        IN (IsList(b) /\ IsDict(d)) =>
               /\ Appended(b, d, o)
               /\ (j + 1 \in Calls /\ applied[j + 1] = applied[j])
                  => /\ Appended(o, d, trail[j + 2].v[k])
                     /\ Len(trail[j + 2].v[k].v) > Len(o.v)
                          <=> ~(Keys(d) \subseteq Indices(o))

\* C36 witness: {field: {"3": X}} applied twice to a list of two elements
\* appended X both times.
C36_Witness ==
    /\ applied = << D("field" :> D("3" :> X)), D("field" :> D("3" :> X)) >>
    /\ trail[1] = D("a" :> A @@ "field" :> L(<<D("a" :> A), D("b" :> B)>>))
    /\ trail[3] = D("a" :> A @@ "field" :> L(<<D("a" :> A), D("b" :> B), X, X>>))

\* A timing delta that consists solely of LastLapTime leaves: "Lines" is its
\* only key and every participant entry holds nothing but LastLapTime.
OnlyLastLapTime(delta) ==
    /\ Keys(delta) = {"Lines"}
    /\ \A k \in Keys(delta.v["Lines"]) : Keys(delta.v["Lines"].v[k]) = {"LastLapTime"}

\* C37: the timing handler spawns no immediate publish for a delta that
\* consists solely of LastLapTime leaves.
C37_NothingLeftNoPublish ==
    [][(handler = "timing" /\ RecordStep /\ ~Cancel
          /\ Head(pendM).H = "Streaming" /\ Channel # "Heartbeat"
          /\ OnlyLastLapTime(StripKf(handler, RawDelta)))
       => pubTasks' = pubTasks]_vars

\* A step of the reconnect cycle: the transport error, the back-off sleep,
\* negotiate() and connect-and-subscribe, whatever their outcome.
ReconnectStep ==
    \/ TransportError
    \/ Backoff
    \/ \E outcome \in {"ok", "http_error", "no_token"} : Negotiate(outcome)
    \/ \E ok \in BOOLEAN : Connect(ok)

\* C38: with retry, no step of the reconnect cycle touches a debounce bucket
\* (its buffer, its timer) or flushes it; and every flush, whichever
\* connections its arrivals came over, goes out one window after the last of
\* them with the merge of all of them as its payload.
C38_BucketsOutliveConnection ==
    /\ [][(RETRY /\ handler = "timing" /\ ReconnectStep) =>
             /\ message' = message
             /\ debounce_task' = debounce_task
             /\ buf' = buf
             /\ age' = age
             /\ flushed' = flushed]_vars
    /\ [](\A i \in DOMAIN flushed :
            /\ flushed[i].at = Interval
            /\ flushed[i].payload = FoldUpd(flushed[i].upds))

\* C38 witness: during the back-off after a transport error the update
\* buffered before the error is still in its bucket and its timer has run
\* the whole window: the flush is due and nothing has been published yet.
C38_Witness ==
    /\ handler = "timing" /\ RETRY
    /\ error = "ConnectionClosed"
    /\ pc = "backoff" /\ sock = "closed"
    /\ buf["44"] # <<>>
    /\ message["44"] = FoldUpd(buf["44"])
    /\ debounce_task["44"] = [st |-> "sleep", rem |-> 0]
    /\ age["44"] = Interval
    /\ flushed = <<>>

\* C39: every payload a debounce flush of bucket k publishes is
\* {Lines: {k: {LastLapTime: v}}} and nothing else, never empty, with v the
\* merge in arrival order of the values added to k since the previous flush
\* of k.
C39_FlushPayloadShape ==
    \A i \in DOMAIN flushed :
        LET k == flushed[i].key
            payload == flushed[i].payload
        IN /\ Keys(payload) = {"Lines"}
           /\ Keys(payload.v["Lines"]) = {k}
           /\ Keys(payload.v["Lines"].v[k]) = {"LastLapTime"}
           /\ SincePrevious(i) # <<>>
           /\ payload = FoldUpd(SincePrevious(i))

\* C40: the state the timing handler hands to the store for a delta record
\* is merge(previous state, the whole delta): every LastLapTime leaf the
\* extraction pops out of the delta afterwards is in the persisted state.
C40_PersistedKeepsLastLapTime ==
    [][(handler = "timing" /\ RecordStep /\ ~Cancel
          /\ Head(pendM).H = "Streaming" /\ Channel # "Heartbeat")
       => LET delta == Pop(RawDelta, "_kf")
              previous == IF store[Channel] = Absent THEN EmptyDict ELSE store[Channel]
          IN \E t \in persistTasks' :
               /\ t.topic = Channel
               /\ t.value = updateDictDelta(previous, delta)
               /\ \A k \in DOMAIN lastLapTimeDelta(delta) :
                    "LastLapTime" \in Keys(t.value.v["Lines"].v[k])]_vars

\* C40 witness: with nothing stored, a delta carrying only a LastLapTime for
\* "44" was extracted into the bucket of "44" (the merged state shares the
\* delta's sub-tree) and the state written to the store holds the leaf.
C40_Witness ==
    /\ handler = "timing"
    /\ buf["44"] = << [id |-> 1, upd |-> tValue(1)] >>
    /\ store["TimingDataF1"] = tValue(1)

====
